---- MODULE Spec2Model ----
(***************************************************************************)
(* torch/_dynamo/trace_rules.py: the trace-rule resolver of Dynamo.        *)
(*                                                                         *)
(*   lookup(obj)               the classifier (precedence chain)           *)
(*   get_torch_obj_rule_map()  the lru_cache'd object -> rule table        *)
(*   load_object(name)         resolution of "pkg.mod.attr[#member]"       *)
(*   is_in_graph_function(obj) the generic fallback heuristic              *)
(*                                                                         *)
(* Python objects are modelled by their identity (a short tag) and the     *)
(* attributes the code reads: type, hashability, __wrapped__,              *)
(* __qualname__.  Qualified names are real strings and are parsed the way  *)
(* str.split / str.rsplit / str.startswith parse them.                     *)
(***************************************************************************)
EXTENDS Naturals, Sequences, FiniteSets, TLC

VARIABLES
    manual_torch_name_rule_map,  \* dict literal, as a sequence of (name, rule) in insertion order
    auto_torch_name_rule_map,    \* dict literal, same representation
    torch_name_rule_map,         \* {**manual, **auto}, computed when the module is imported
    disallowed_function_ids,     \* allowed_functions._disallowed_function_ids
    allowed_user_defined_ids,    \* the ids is_user_defined_allowed accepts
    threads,                     \* the tracer threads that call into this module
    cache,                       \* what lru_cache holds for get_torch_obj_rule_map()
    builds,                      \* completed executions of get_torch_obj_rule_map's body
    pc,                          \* per thread: where its call stands
    arg,                         \* per thread: the argument of lookup
    key,                         \* per thread: the local obj after the unwrap step
    tab,                         \* per thread: the table get_torch_obj_rule_map() returned
    result,                      \* per thread: the value lookup returned
    exc                          \* per thread: the exception that left the call

vars == <<manual_torch_name_rule_map, auto_torch_name_rule_map, torch_name_rule_map,
          disallowed_function_ids, allowed_user_defined_ids, threads, cache, builds,
          pc, arg, key, tab, result, exc>>

config == <<manual_torch_name_rule_map, auto_torch_name_rule_map, torch_name_rule_map,
            disallowed_function_ids, allowed_user_defined_ids, threads>>

-----------------------------------------------------------------------------
(* Bounds of the explored inputs. *)

\* ids in the Disallow set plus ids the Allow predicate accepts
MaxOverrides == 2
\* entries of manual plus auto rule map when lookup is explored
MaxEntries == 2
\* entries of manual plus auto rule map when only construction is explored
MaxBuildEntries == 3

-----------------------------------------------------------------------------
(* Values. *)

TorchInGraphFunctionVariable == "TorchInGraphFunctionVariable"
TorchCtxManagerClassVariable == "TorchCtxManagerClassVariable"
ConstantVariable == "ConstantVariable"
None == "None"

NoObj == "NoObj"
NoTable == [id |-> 0, d |-> <<>>]

Threads == {"t1", "t2"}

-----------------------------------------------------------------------------
(* The Python objects of the explored heap.                                *)
(*   S1, S2  two str objects with equal content "hello"                    *)
(*   F       a plain function, m.f, defined in m.s (m.s.f)                 *)
(*   W       functools.wraps wrapper of F, m.w                             *)
(*   C       a class, m.c; G its member g, a wrapper of W                  *)
(*   V       wrapper whose own __qualname__ is _VariableFunctionsClass.add *)
(*   VO      the builtin V wraps (same __qualname__)                       *)
(*   X       wrapper of VO with an unrelated __qualname__                  *)
(*   Y       wrapper of F whose own __qualname__ is reserved               *)
(*   U       an unhashable callable instance                               *)
(*   WU      a hashable object whose __wrapped__ is U, no __qualname__     *)
(*   T       a method descriptor of torch.Tensor                           *)
(*   O       a torch._ops.OpOverload                                       *)
(*   N       an int                                                        *)

Objects == {"S1", "S2", "F", "W", "C", "G", "V", "VO", "X", "Y", "U", "WU", "T", "O", "N"}

id(o) == o

hashable(o) == o # "U"

TypeOf(o) ==
    CASE o \in {"S1", "S2"} -> "str"
      [] o \in {"F", "W", "G", "V", "X", "Y"} -> "FunctionType"
      [] o = "VO" -> "BuiltinFunctionType"
      [] o = "T" -> "MethodDescriptorType"
      [] o = "O" -> "OpOverload"
      [] o = "C" -> "type"
      [] o = "N" -> "int"
      [] OTHER -> "object"

\* getattr(o, "__wrapped__"), NoObj when the attribute is absent
Wrapped(o) ==
    CASE o = "W" -> "F"
      [] o = "G" -> "W"
      [] o = "V" -> "VO"
      [] o = "X" -> "VO"
      [] o = "Y" -> "F"
      [] o = "WU" -> "U"
      [] OTHER -> NoObj

\* str(o.__qualname__), None when the attribute is absent
QualName(o) ==
    CASE o \in {"F", "W"} -> "f"
      [] o = "G" -> "C.g"
      [] o = "C" -> "C"
      [] o \in {"V", "VO", "Y"} -> "_VariableFunctionsClass.add"
      [] o = "X" -> "helper.<locals>.inner"
      [] o = "T" -> "TensorBase.add"
      [] OTHER -> None

\* the content of a str object
StrValue(o) == IF TypeOf(o) = "str" THEN "hello" ELSE None

\* allowed_functions.is_allowed
is_allowed(o) == o \in {"F", "VO", "T", "O"}

\* allowed_functions.is_user_defined_allowed
is_user_defined_allowed(o) == id(o) \in allowed_user_defined_ids

\* importlib.import_module(m) succeeds: a package and its submodule
Modules == {"m", "m.s"}

\* getattr(module, a), NoObj when it raises AttributeError
ModuleAttr(m, a) ==
    CASE m = "m" /\ a = "f" -> "F"
      [] m = "m" /\ a = "w" -> "W"
      [] m = "m" /\ a = "c" -> "C"
      [] m = "m.s" /\ a = "f" -> "F"
      [] OTHER -> NoObj

\* getattr(o, a), NoObj when it raises AttributeError
ObjAttr(o, a) ==
    CASE o = "C" /\ a = "g" -> "G"
      [] OTHER -> NoObj

-----------------------------------------------------------------------------
(* Strings. *)

Char(s, i) == SubSeq(s, i, i)

\* str.startswith
StartsWith(s, p) == Len(s) >= Len(p) /\ SubSeq(s, 1, Len(p)) = p

\* s.split(sep) for a one-character sep
RECURSIVE Split(_, _)
Split(s, sep) ==
    IF \A i \in 1..Len(s) : Char(s, i) # sep
    THEN <<s>>
    ELSE LET i == CHOOSE j \in 1..Len(s) :
                      /\ Char(s, j) = sep
                      /\ \A k \in 1..(j - 1) : Char(s, k) # sep
         IN  <<SubSeq(s, 1, i - 1)>> \o Split(SubSeq(s, i + 1, Len(s)), sep)

\* s.rsplit(sep, maxsplit=1) for a one-character sep
RSplit1(s, sep) ==
    IF \A i \in 1..Len(s) : Char(s, i) # sep
    THEN <<s>>
    ELSE LET i == CHOOSE j \in 1..Len(s) :
                      /\ Char(s, j) = sep
                      /\ \A k \in (j + 1)..Len(s) : Char(s, k) # sep
         IN  <<SubSeq(s, 1, i - 1), SubSeq(s, i + 1, Len(s))>>

-----------------------------------------------------------------------------
(* Dicts keyed by object: functions with a finite domain. *)

EmptyDict == <<>>

DictPut(d, k, v) == [x \in (DOMAIN d) \cup {k} |-> IF x = k THEN v ELSE d[x]]

DictGet(d, k) == IF k \in DOMAIN d THEN d[k] ELSE None

\* name-keyed dict literals, kept as sequences in insertion order
Names(m) == {m[i].name : i \in 1..Len(m)}

NameGet(m, n) == IF n \in Names(m)
                 THEN m[CHOOSE i \in 1..Len(m) : m[i].name = n].rule
                 ELSE None

-----------------------------------------------------------------------------
(* torch_name_rule_map = {**manual_torch_name_rule_map, **auto_torch_name_rule_map}: *)
(* the keys of manual keep their place and take auto's value when auto has *)
(* the key too; the keys only auto has follow in auto's order.             *)

\* MergeRuleMaps as {**auto, **manual}
MergeRuleMaps_ManualLast(manual, auto) ==
    [i \in 1..Len(auto) |->
        [name |-> auto[i].name,
         rule |-> IF auto[i].name \in Names(manual)
                  THEN NameGet(manual, auto[i].name)
                  ELSE auto[i].rule]]
    \o SelectSeq(manual, LAMBDA e : e.name \notin Names(auto))

MergeRuleMaps(manual, auto) ==
    [i \in 1..Len(manual) |->
        [name |-> manual[i].name,
         rule |-> IF manual[i].name \in Names(auto)
                  THEN NameGet(auto, manual[i].name)
                  ELSE manual[i].rule]]
    \o SelectSeq(auto, LAMBDA e : e.name \notin Names(manual))

-----------------------------------------------------------------------------
(* Resolution of a qualified name.  A result is [exc, val]: the exception  *)
(* raised (None when the call returns) and the value returned.             *)

Raise(e) == [exc |-> e, val |-> NoObj]

Return(v) == [exc |-> None, val |-> v]

load_obj_from_str(fully_qualified_name) ==
    LET parts == RSplit1(fully_qualified_name, ".") IN
    IF Len(parts) # 2 THEN Raise("ValueError")                 \* unpacking into (module, obj_name)
    ELSE IF parts[1] = "" THEN Raise("ValueError")             \* import_module(""): empty module name
    ELSE IF parts[1] \notin Modules THEN Raise("ModuleNotFoundError")
    ELSE IF ModuleAttr(parts[1], parts[2]) = NoObj THEN Raise("AttributeError")
    ELSE Return(ModuleAttr(parts[1], parts[2]))

\* if hasattr(val, "__wrapped__"): val = val.__wrapped__
UnwrapLoaded(val) == IF Wrapped(val) # NoObj THEN Wrapped(val) ELSE val

load_object(name) ==
    LET x == Split(name, "#") IN
    IF Len(x) = 2
    THEN LET obj == load_obj_from_str(x[1]) IN
         IF obj.exc # None THEN obj
         ELSE IF ObjAttr(obj.val, x[2]) = NoObj THEN Raise("AttributeError")
         ELSE Return(UnwrapLoaded(ObjAttr(obj.val, x[2])))
    ELSE IF Len(x) # 1 THEN Raise("AssertionError")            \* assert len(x) == 1
    ELSE LET val == load_obj_from_str(x[1]) IN
         IF val.exc # None THEN val ELSE Return(UnwrapLoaded(val.val))

\* Caught as "except AttributeError"
Caught_AttributeErrorOnly(e) == e = "AttributeError"

\* Caught as "except Exception"
Caught_Exception(e) == TRUE

\* except (AttributeError, ModuleNotFoundError): pass
Caught(e) == e \in {"AttributeError", "ModuleNotFoundError"}

\* The loop of get_torch_obj_rule_map over m[i..], d the dict so far.
\* A result is [exc, d]: the exception that left the loop, or None and the dict.
RECURSIVE RuleMapLoop(_, _, _)
RuleMapLoop(m, i, d) ==
    IF i > Len(m) THEN [exc |-> None, d |-> d]
    ELSE LET obj == load_object(m[i].name) IN
         IF obj.exc # None
         THEN IF Caught(obj.exc) THEN RuleMapLoop(m, i + 1, d)
              ELSE [exc |-> obj.exc, d |-> EmptyDict]
         ELSE IF ~hashable(obj.val) THEN [exc |-> "TypeError", d |-> EmptyDict]   \* d[obj] = v
         ELSE RuleMapLoop(m, i + 1, DictPut(d, obj.val, m[i].rule))

\* the body of get_torch_obj_rule_map
get_torch_obj_rule_map_body == RuleMapLoop(torch_name_rule_map, 1, EmptyDict)

-----------------------------------------------------------------------------
(* The fallback heuristic. *)

\* the attributes of torch.Tensor
TensorAttrs == {"T"}

get_tensor_method ==
    {method \in TensorAttrs :
        TypeOf(method) \in {"MethodDescriptorType", "WrapperDescriptorType"}}

is_in_graph_function(obj) ==
    IF obj \in get_tensor_method \/ TypeOf(obj) \in {"OpOverloadPacket", "OpOverload"}
    THEN TRUE
    ELSE IF TypeOf(obj) \in {"FunctionType", "MethodType", "BuiltinFunctionType",
                             "MethodDescriptorType", "WrapperDescriptorType"}
    THEN is_allowed(obj)
    ELSE FALSE

-----------------------------------------------------------------------------
(* lookup. *)

\* hasattr(obj, "__qualname__") and str(obj.__qualname__).startswith("_VariableFunctionsClass")
InVariableFunctionsClass(obj) ==
    QualName(obj) # None /\ StartsWith(QualName(obj), "_VariableFunctionsClass")

\* UnwrapTarget without the _VariableFunctionsClass guard
UnwrapTarget_Always(obj) == IF Wrapped(obj) # NoObj THEN Wrapped(obj) ELSE obj

\* the local obj after the __wrapped__ step
UnwrapTarget(obj) ==
    IF Wrapped(obj) # NoObj
    THEN IF ~InVariableFunctionsClass(obj) THEN Wrapped(obj) ELSE obj
    ELSE obj

\* LookupPrefix with the Allow test moved before the Disallow test
LookupPrefix_AllowFirst(obj) ==
    IF ~hashable(obj) THEN [returned |-> TRUE, val |-> None, obj |-> NoObj]
    ELSE IF is_user_defined_allowed(obj)
    THEN [returned |-> TRUE, val |-> TorchInGraphFunctionVariable, obj |-> NoObj]
    ELSE IF id(obj) \in disallowed_function_ids
    THEN [returned |-> TRUE, val |-> None, obj |-> NoObj]
    ELSE IF TypeOf(obj) = "str"
    THEN [returned |-> TRUE, val |-> ConstantVariable, obj |-> NoObj]
    ELSE [returned |-> FALSE, val |-> None, obj |-> UnwrapTarget(obj)]

\* LookupPrefix with the str test moved before the Allow test
LookupPrefix_StrFirst(obj) ==
    IF ~hashable(obj) THEN [returned |-> TRUE, val |-> None, obj |-> NoObj]
    ELSE IF id(obj) \in disallowed_function_ids
    THEN [returned |-> TRUE, val |-> None, obj |-> NoObj]
    ELSE IF TypeOf(obj) = "str"
    THEN [returned |-> TRUE, val |-> ConstantVariable, obj |-> NoObj]
    ELSE IF is_user_defined_allowed(obj)
    THEN [returned |-> TRUE, val |-> TorchInGraphFunctionVariable, obj |-> NoObj]
    ELSE [returned |-> FALSE, val |-> None, obj |-> UnwrapTarget(obj)]

\* LookupPrefix without the str test
LookupPrefix_NoStr(obj) ==
    IF ~hashable(obj) THEN [returned |-> TRUE, val |-> None, obj |-> NoObj]
    ELSE IF id(obj) \in disallowed_function_ids
    THEN [returned |-> TRUE, val |-> None, obj |-> NoObj]
    ELSE IF is_user_defined_allowed(obj)
    THEN [returned |-> TRUE, val |-> TorchInGraphFunctionVariable, obj |-> NoObj]
    ELSE [returned |-> FALSE, val |-> None, obj |-> UnwrapTarget(obj)]

\* lookup up to the call of get_torch_obj_rule_map: either it has returned val,
\* or it goes on with the local obj
LookupPrefix(obj) ==
    IF ~hashable(obj) THEN [returned |-> TRUE, val |-> None, obj |-> NoObj]
    ELSE IF id(obj) \in disallowed_function_ids
    THEN [returned |-> TRUE, val |-> None, obj |-> NoObj]
    ELSE IF is_user_defined_allowed(obj)
    THEN [returned |-> TRUE, val |-> TorchInGraphFunctionVariable, obj |-> NoObj]
    ELSE IF TypeOf(obj) = "str"
    THEN [returned |-> TRUE, val |-> ConstantVariable, obj |-> NoObj]
    ELSE [returned |-> FALSE, val |-> None, obj |-> UnwrapTarget(obj)]

\* LookupRule with the fallback heuristic consulted before the table
LookupRule_FallbackFirst(d, obj) ==
    IF is_in_graph_function(obj)
    THEN TorchInGraphFunctionVariable
    ELSE DictGet(d, obj)

\* rule = d.get(obj, None); the value lookup returns
LookupRule(d, obj) ==
    LET rule == DictGet(d, obj) IN
    IF rule = None /\ is_in_graph_function(obj)
    THEN TorchInGraphFunctionVariable
    ELSE rule

-----------------------------------------------------------------------------
(* The explored inputs. *)

\* the classifications the rule maps of the source use
Rules == {TorchInGraphFunctionVariable, TorchCtxManagerClassVariable}

\* qualified names: resolving (m.f), resolving through a wrapper to the same
\* object (m.w), resolving through a member (m.c#g); missing module (x.f),
\* missing attribute (m.z), missing member (m.c#z); two separators (m.c#g#h)
RuleNames == {"m.f", "m.w", "m.c#g", "x.f", "m.z", "m.c#z", "m.c#g#h"}

Entry(n, r) == [name |-> n, rule |-> r]

\* dict literals of exactly n entries: no name twice
RECURSIVE EntrySeqs(_)
EntrySeqs(n) ==
    IF n = 0 THEN {<<>>}
    ELSE UNION {{Append(m, Entry(nm, r)) : nm \in RuleNames \ Names(m), r \in Rules} :
                m \in EntrySeqs(n - 1)}

\* dict literals of at most k entries
RuleMaps(k) == UNION {EntrySeqs(n) : n \in 0..k}

\* sets of at most k objects
RECURSIVE SmallSets(_)
SmallSets(k) ==
    IF k = 0 THEN {{}}
    ELSE SmallSets(k - 1) \cup {x \cup {o} : x \in SmallSets(k - 1), o \in Objects}

\* a rule map of the shape of the source's: a class as context manager, a member
\* named with '#', a name that no longer resolves, and an auto-derived entry
SampleManual == <<Entry("m.c", TorchCtxManagerClassVariable),
                  Entry("m.c#g", TorchInGraphFunctionVariable),
                  Entry("m.z", TorchInGraphFunctionVariable)>>

SampleAuto == <<Entry("m.s.f", TorchCtxManagerClassVariable)>>

-----------------------------------------------------------------------------
(* Initial states: the module imported, nothing cached, no call under way. *)

InitCalls ==
    /\ cache = NoTable
    /\ builds = 0
    /\ pc = [t \in Threads |-> "idle"]
    /\ arg = [t \in Threads |-> NoObj]
    /\ key = [t \in Threads |-> NoObj]
    /\ tab = [t \in Threads |-> NoTable]
    /\ result = [t \in Threads |-> None]
    /\ exc = [t \in Threads |-> None]

\* one thread, the sample rule maps, any small Disallow and Allow sets
InitOverrides ==
    /\ threads = {"t1"}
    /\ manual_torch_name_rule_map = SampleManual
    /\ auto_torch_name_rule_map = SampleAuto
    /\ disallowed_function_ids \in SmallSets(MaxOverrides)
    /\ allowed_user_defined_ids \in SmallSets(MaxOverrides - Cardinality(disallowed_function_ids))

\* one thread, no overrides, any small rule maps
InitRuleMaps(k) ==
    /\ threads = {"t1"}
    /\ manual_torch_name_rule_map \in RuleMaps(k)
    /\ auto_torch_name_rule_map \in RuleMaps(k - Len(manual_torch_name_rule_map))
    /\ disallowed_function_ids = {}
    /\ allowed_user_defined_ids = {}

\* two threads, the sample rule maps, no overrides
InitThreads ==
    /\ threads = Threads
    /\ manual_torch_name_rule_map = SampleManual
    /\ auto_torch_name_rule_map = SampleAuto
    /\ disallowed_function_ids = {}
    /\ allowed_user_defined_ids = {}

Init ==
    /\ InitOverrides \/ InitRuleMaps(MaxEntries) \/ InitThreads
    /\ torch_name_rule_map =
           MergeRuleMaps(manual_torch_name_rule_map, auto_torch_name_rule_map)
    /\ InitCalls

InitBuild ==
    /\ InitRuleMaps(MaxBuildEntries)
    /\ torch_name_rule_map =
           MergeRuleMaps(manual_torch_name_rule_map, auto_torch_name_rule_map)
    /\ InitCalls

-----------------------------------------------------------------------------
(* Actions. *)

\* thread t calls lookup(obj): the guards, the overrides, the str test and the
\* unwrap read nothing another thread writes
Lookup(t, obj) ==
    /\ pc[t] = "idle"
    /\ LET r == LookupPrefix(obj) IN
         /\ pc' = [pc EXCEPT ![t] = IF r.returned THEN "done" ELSE "rule_map"]
         /\ result' = [result EXCEPT ![t] = r.val]
         /\ key' = [key EXCEPT ![t] = r.obj]
    /\ arg' = [arg EXCEPT ![t] = obj]
    /\ UNCHANGED <<config, cache, builds, tab, exc>>

\* thread t calls get_torch_obj_rule_map() itself
CallRuleMap(t) ==
    /\ pc[t] = "idle"
    /\ pc' = [pc EXCEPT ![t] = "rule_map"]
    /\ UNCHANGED <<config, cache, builds, arg, key, tab, result, exc>>

\* lru_cache: the cache is read; on a hit its value is returned, on a miss the
\* body is called
CacheLookup(t) ==
    /\ pc[t] = "rule_map"
    /\ IF cache # NoTable
       THEN /\ tab' = [tab EXCEPT ![t] = cache]
            /\ pc' = [pc EXCEPT ![t] = "table"]
       ELSE /\ tab' = tab
            /\ pc' = [pc EXCEPT ![t] = "body"]
    /\ UNCHANGED <<config, cache, builds, arg, key, result, exc>>

\* the body runs on local data; lru_cache then stores what it returned, or the
\* exception leaves get_torch_obj_rule_map (and lookup) and nothing is stored
RunBody(t) ==
    /\ pc[t] = "body"
    /\ LET b == get_torch_obj_rule_map_body IN
         IF b.exc = None
         THEN /\ builds' = builds + 1
              /\ cache' = [id |-> builds + 1, d |-> b.d]
              /\ tab' = [tab EXCEPT ![t] = [id |-> builds + 1, d |-> b.d]]
              /\ pc' = [pc EXCEPT ![t] = "table"]
              /\ exc' = exc
         ELSE /\ exc' = [exc EXCEPT ![t] = b.exc]
              /\ pc' = [pc EXCEPT ![t] = "raised"]
              /\ UNCHANGED <<builds, cache, tab>>
    /\ UNCHANGED <<config, arg, key, result>>

\* lookup goes on with the table: .get(obj, None) hashes obj
GetRule(t) ==
    /\ pc[t] = "table"
    /\ arg[t] # NoObj
    /\ IF hashable(key[t])
       THEN /\ result' = [result EXCEPT ![t] = LookupRule(tab[t].d, key[t])]
            /\ pc' = [pc EXCEPT ![t] = "done"]
            /\ exc' = exc
       ELSE /\ exc' = [exc EXCEPT ![t] = "TypeError"]
            /\ pc' = [pc EXCEPT ![t] = "raised"]
            /\ result' = result
    /\ UNCHANGED <<config, cache, builds, arg, key, tab>>

\* the call of thread t is over: its frame is gone
Finish(t) ==
    /\ \/ pc[t] \in {"done", "raised"}
       \/ pc[t] = "table" /\ arg[t] = NoObj
    /\ pc' = [pc EXCEPT ![t] = "idle"]
    /\ arg' = [arg EXCEPT ![t] = NoObj]
    /\ key' = [key EXCEPT ![t] = NoObj]
    /\ tab' = [tab EXCEPT ![t] = NoTable]
    /\ result' = [result EXCEPT ![t] = None]
    /\ exc' = [exc EXCEPT ![t] = None]
    /\ UNCHANGED <<config, cache, builds>>

Next ==
    \/ \E t \in threads, obj \in Objects : Lookup(t, obj)
    \/ \E t \in threads : CacheLookup(t)
    \/ \E t \in threads : RunBody(t)
    \/ \E t \in threads : GetRule(t)
    \/ \E t \in threads : Finish(t)

Spec == Init /\ [][Next]_vars

NextBuild ==
    \/ \E t \in threads : CallRuleMap(t)
    \/ \E t \in threads : CacheLookup(t)
    \/ \E t \in threads : RunBody(t)
    \/ \E t \in threads : Finish(t)

SpecBuild == InitBuild /\ [][NextBuild]_vars

-----------------------------------------------------------------------------
(* Properties of lookup. *)

\* the call of thread t is a call of lookup
InLookup(t) == t \in threads /\ arg[t] # NoObj

\* lookup of thread t has left the call: it returned or raised
Left(t) == InLookup(t) /\ pc[t] \in {"done", "raised"}

\* C1: an object whose id is in the Disallow set is answered None, whatever the
\* Allow predicate, the rule table and the fallback heuristic say of it.
C1_DisallowFirst ==
    \A t \in threads :
        (InLookup(t) /\ id(arg[t]) \in disallowed_function_ids)
            => (pc[t] = "done" /\ result[t] = None)

\* a disallowed object that is also user-allowed, has a rule in the built table
\* and passes the fallback heuristic, answered None
C1_Witness ==
    \E t \in threads :
        /\ pc[t] = "done" /\ InLookup(t) /\ result[t] = None
        /\ id(arg[t]) \in disallowed_function_ids
        /\ is_user_defined_allowed(arg[t])
        /\ arg[t] \in DOMAIN cache.d
        /\ is_in_graph_function(arg[t])

\* C2 as stated: an object not disallowed that the Allow predicate accepts is
\* answered TorchInGraphFunctionVariable.
C2_AllowOverTable ==
    \A t \in threads :
        (InLookup(t) /\ id(arg[t]) \notin disallowed_function_ids
                     /\ is_user_defined_allowed(arg[t]))
            => (pc[t] = "done" /\ result[t] = TorchInGraphFunctionVariable)

\* C2 amended: a hashable object not disallowed that the Allow predicate accepts
\* is answered TorchInGraphFunctionVariable, whatever the rule table holds.
C2_AllowOverTable_Hashable ==
    \A t \in threads :
        (InLookup(t) /\ hashable(arg[t])
                     /\ id(arg[t]) \notin disallowed_function_ids
                     /\ is_user_defined_allowed(arg[t]))
            => (pc[t] = "done" /\ result[t] = TorchInGraphFunctionVariable)

\* a user-allowed object for which the built table holds the context-manager rule
C2_Witness ==
    \E t \in threads :
        /\ pc[t] = "done" /\ InLookup(t)
        /\ result[t] = TorchInGraphFunctionVariable
        /\ is_user_defined_allowed(arg[t])
        /\ id(arg[t]) \notin disallowed_function_ids
        /\ DictGet(cache.d, arg[t]) = TorchCtxManagerClassVariable

\* C3 as stated: a str whose id is not in the Disallow set is answered
\* ConstantVariable.
C3_StrConstant ==
    \A t \in threads :
        (InLookup(t) /\ TypeOf(arg[t]) = "str"
                     /\ id(arg[t]) \notin disallowed_function_ids)
            => (pc[t] = "done" /\ result[t] = ConstantVariable)

\* C3 amended: a str whose id is not in the Disallow set and that the Allow
\* predicate does not accept is answered ConstantVariable, also when a str of
\* equal content is disallowed.
C3_StrConstant_NotAllowed ==
    \A t \in threads :
        (InLookup(t) /\ TypeOf(arg[t]) = "str"
                     /\ id(arg[t]) \notin disallowed_function_ids
                     /\ ~is_user_defined_allowed(arg[t]))
            => (pc[t] = "done" /\ result[t] = ConstantVariable)

\* a str answered ConstantVariable while another str of equal content is disallowed
C3_Witness ==
    \E t \in threads : \E s \in Objects :
        /\ pc[t] = "done" /\ InLookup(t) /\ result[t] = ConstantVariable
        /\ TypeOf(arg[t]) = "str"
        /\ s # arg[t] /\ StrValue(s) = StrValue(arg[t])
        /\ id(s) \in disallowed_function_ids

\* C4: get_torch_obj_rule_map's body runs to its end at most once, and all
\* callers hold the same table object.
C4_BuiltOnce ==
    /\ builds <= 1
    /\ \A s, t \in threads :
           (tab[s] # NoTable /\ tab[t] # NoTable) => tab[s].id = tab[t].id

\* C5: for a hashable argument, the object lookup uses for the table and the
\* tensor-method test is hashable and lookup does not raise TypeError.
C5_KeysHashable ==
    \A t \in threads :
        (Left(t) /\ hashable(arg[t]))
            => /\ tab[t] # NoTable => hashable(key[t])
               /\ exc[t] # "TypeError"

\* C6 as stated: of an object with __wrapped__ that reaches the unwrap step,
\* the table is asked about the object itself when its __wrapped__ original has
\* a __qualname__ starting with _VariableFunctionsClass, else about the original.
C6_GuardOnOriginal ==
    \A t \in threads :
        (InLookup(t) /\ key[t] # NoObj /\ Wrapped(arg[t]) # NoObj)
            => key[t] = IF InVariableFunctionsClass(Wrapped(arg[t]))
                        THEN arg[t] ELSE Wrapped(arg[t])

\* C6 amended: the table is asked about the object itself when the object's own
\* __qualname__ starts with _VariableFunctionsClass, else about its __wrapped__.
C6_GuardOnObject ==
    \A t \in threads :
        (InLookup(t) /\ key[t] # NoObj /\ Wrapped(arg[t]) # NoObj)
            => key[t] = IF InVariableFunctionsClass(arg[t])
                        THEN arg[t] ELSE Wrapped(arg[t])

\* a wrapper with a reserved __qualname__ looked up as itself
C6_Witness ==
    \E t \in threads :
        /\ pc[t] = "done" /\ InLookup(t)
        /\ Wrapped(arg[t]) # NoObj
        /\ InVariableFunctionsClass(arg[t])
        /\ key[t] = arg[t]

\* name n resolves to object o
ResolvesTo(n, o) == load_object(n) = Return(o)

\* the places of the merged map whose name resolves to o
PlacesOf(o) ==
    {i \in 1..Len(torch_name_rule_map) : ResolvesTo(torch_name_rule_map[i].name, o)}

\* the last place of the merged map whose name resolves to o
LastPlaceOf(o) == CHOOSE i \in PlacesOf(o) : \A j \in PlacesOf(o) : j <= i

\* lookup(arg[t]) falls under C9: hashable, not disallowed, not user-allowed, not a str
PlainArg(t) ==
    /\ hashable(arg[t])
    /\ id(arg[t]) \notin disallowed_function_ids
    /\ ~is_user_defined_allowed(arg[t])
    /\ TypeOf(arg[t]) # "str"

\* C9 as stated: for every entry (n, c) of the merged map whose name resolves to
\* o, lookup(o) returns c when o is hashable, not disallowed, not user-allowed
\* and not a str (stated of the calls that return).
C9_EntryIsReturned ==
    \A t \in threads : \A i \in 1..Len(torch_name_rule_map) :
        (InLookup(t) /\ pc[t] = "done" /\ PlainArg(t)
                     /\ ResolvesTo(torch_name_rule_map[i].name, arg[t]))
            => result[t] = torch_name_rule_map[i].rule

\* C9 amended: for an object o that some entry's name resolves to and that
\* lookup does not unwrap, lookup(o), when it returns, returns the rule of the
\* last entry of the merged map that resolves to o, whatever the fallback
\* heuristic says; it raises only when table construction raises.
C9_LastEntryIsReturned ==
    \A t \in threads :
        (Left(t) /\ PlainArg(t) /\ PlacesOf(arg[t]) # {} /\ key[t] = arg[t])
            => /\ pc[t] = "done" =>
                    result[t] = torch_name_rule_map[LastPlaceOf(arg[t])].rule
               /\ pc[t] = "raised" =>
                    (exc[t] # "TypeError" /\ tab[t] = NoTable)

\* an object with the context-manager rule returned as such although the
\* fallback heuristic accepts it
C9_Witness ==
    \E t \in threads :
        /\ pc[t] = "done" /\ InLookup(t) /\ PlainArg(t)
        /\ PlacesOf(arg[t]) # {} /\ key[t] = arg[t]
        /\ is_in_graph_function(arg[t])
        /\ result[t] = TorchCtxManagerClassVariable

-----------------------------------------------------------------------------
(* Properties of the construction of the table. *)

\* name n does not resolve: a module or an attribute on the way is missing
Unresolvable(n) == load_object(n).exc \in {"AttributeError", "ModuleNotFoundError"}

\* the merged map without the entries whose name does not resolve
ResolvableEntries == SelectSeq(torch_name_rule_map, LAMBDA e : ~Unresolvable(e.name))

\* C7: an entry whose name does not resolve does not make construction raise,
\* and the table built is the one built from the other entries alone.
C7_UnresolvedDropped ==
    /\ \A t \in threads :
           pc[t] = "raised" => exc[t] \notin {"AttributeError", "ModuleNotFoundError"}
    /\ cache # NoTable => cache.d = RuleMapLoop(ResolvableEntries, 1, EmptyDict).d
    /\ \A t \in threads :
           tab[t] # NoTable => tab[t].d = RuleMapLoop(ResolvableEntries, 1, EmptyDict).d

\* a table built past an entry that does not resolve, holding the rule of an
\* entry that follows it
C7_Witness ==
    /\ cache # NoTable
    /\ \E i, j \in 1..Len(torch_name_rule_map) :
           /\ i < j
           /\ Unresolvable(torch_name_rule_map[i].name)
           /\ load_object(torch_name_rule_map[j].name).exc = None
           /\ DictGet(cache.d, load_object(torch_name_rule_map[j].name).val)
                  = torch_name_rule_map[j].rule

\* name n holds two or more '#'
Malformed(n) == Cardinality({i \in 1..Len(n) : Char(n, i) = "#"}) >= 2

HasMalformed == \E i \in 1..Len(torch_name_rule_map) : Malformed(torch_name_rule_map[i].name)

\* C8: with a name of two or more '#' in the merged map, every construction
\* ends in an exception that leaves get_torch_obj_rule_map; no table is
\* returned and none is cached.
C8_MalformedAborts ==
    HasMalformed =>
        /\ cache = NoTable
        /\ builds = 0
        /\ \A t \in threads : pc[t] # "table" /\ tab[t] = NoTable

\* construction aborted by the assert after an earlier entry had resolved
C8_Witness ==
    \E t \in threads : \E i, j \in 1..Len(torch_name_rule_map) :
        /\ pc[t] = "raised" /\ exc[t] = "AssertionError"
        /\ cache = NoTable
        /\ i < j
        /\ load_object(torch_name_rule_map[i].name).exc = None
        /\ Malformed(torch_name_rule_map[j].name)

\* the names manual and auto give different rules
Contested ==
    {n \in Names(manual_torch_name_rule_map) \cap Names(auto_torch_name_rule_map) :
        NameGet(manual_torch_name_rule_map, n) # NameGet(auto_torch_name_rule_map, n)}

\* the place of name n in the merged map
PlaceOfName(n) == CHOOSE i \in 1..Len(torch_name_rule_map) : torch_name_rule_map[i].name = n

\* C10 as stated: a name manual and auto give different rules has auto's rule
\* in the merged map, and the built table holds auto's rule for the object the
\* name resolves to.
C10_AutoWins ==
    \A n \in Contested :
        /\ NameGet(torch_name_rule_map, n) = NameGet(auto_torch_name_rule_map, n)
        /\ (cache # NoTable /\ load_object(n).exc = None)
               => DictGet(cache.d, load_object(n).val) = NameGet(auto_torch_name_rule_map, n)

\* C10 amended: ... the built table holds auto's rule for the object the name
\* resolves to unless an entry later in the merged map resolves to the same object.
C10_AutoWinsUnlessAliased ==
    \A n \in Contested :
        /\ NameGet(torch_name_rule_map, n) = NameGet(auto_torch_name_rule_map, n)
        /\ (/\ cache # NoTable
            /\ load_object(n).exc = None
            /\ \A j \in 1..Len(torch_name_rule_map) :
                   j > PlaceOfName(n) =>
                       ~ResolvesTo(torch_name_rule_map[j].name, load_object(n).val))
               => DictGet(cache.d, load_object(n).val) = NameGet(auto_torch_name_rule_map, n)

\* a table built from maps that give one resolving name different rules
C10_Witness ==
    /\ cache # NoTable
    /\ \E n \in Contested :
           /\ load_object(n).exc = None
           /\ \A j \in 1..Len(torch_name_rule_map) :
                  j > PlaceOfName(n) =>
                      ~ResolvesTo(torch_name_rule_map[j].name, load_object(n).val)
           /\ DictGet(cache.d, load_object(n).val) = NameGet(auto_torch_name_rule_map, n)

====
